---- MODULE Spec2Model ----
(***************************************************************************)
(* A model of file_renamer.py: the timestamp prefix, the collision loop    *)
(* and the transfer of rename_file, the batch loop of process_directory    *)
(* and the two modes of main, over a small file system.                    *)
(*                                                                         *)
(* File names are sequences of one-character strings, so that building a   *)
(* name (prefix, counter, extension) and taking it apart (suffix, rsplit,  *)
(* lower) are computed as the code computes them.                          *)
(***************************************************************************)
EXTENDS Integers, Sequences, FiniteSets, TLC

\* Number of rename_file calls in one behaviour.
MaxCalls == 3
\* Number of I/O failures the environment injects in one behaviour.
MaxFaults == 1

----------------------------------------------------------------------------
\* Strings

DigitChars == <<"0", "1", "2", "3", "4", "5", "6", "7", "8", "9">>

RECURSIVE Digits(_)
\* str(n) for n >= 0
Digits(n) == IF n < 10 THEN <<DigitChars[n + 1]>>
             ELSE Digits(n \div 10) \o <<DigitChars[(n % 10) + 1]>>

RECURSIVE ZeroPad(_, _)
\* left-pad with "0" to at least w characters: the format spec 0<w>d
ZeroPad(s, w) == IF Len(s) >= w THEN s ELSE ZeroPad(<<"0">> \o s, w)

\* The counter padded to two digits only.
FormatCounterTwoDigits(counter) == ZeroPad(Digits(counter), 2)

\* f"{counter:03d}"
FormatCounter(counter) == ZeroPad(Digits(counter), 3)

\* %y, %m, %d, %H, %M, %S of strftime: two digits each
TwoDigits(n) == ZeroPad(Digits(n % 100), 2)

\* str.lower on one character of the model's alphabet
LowerChar(c) ==
    CASE c = "A" -> "a" [] c = "B" -> "b" [] c = "C" -> "c" [] c = "D" -> "d"
      [] c = "F" -> "f" [] c = "P" -> "p" [] c = "T" -> "t" [] c = "X" -> "x"
      [] OTHER -> c

\* str.lower
Lower(s) == [i \in 1..Len(s) |-> LowerChar(s[i])]

RECURSIVE RFind(_, _, _)
\* str.rfind(ch) among the first n characters, 1-based; 0 when absent
RFind(s, ch, n) == IF n = 0 THEN 0
                   ELSE IF s[n] = ch THEN n ELSE RFind(s, ch, n - 1)

\* PurePath.suffix: the last dot and what follows it, unless the dot is the
\* first or the last character of the name
PathSuffix(name) ==
    LET i == RFind(name, ".", Len(name))
    IN  IF 1 < i /\ i < Len(name) THEN SubSeq(name, i, Len(name)) ELSE <<>>

\* original_name.rsplit('.', 1): <<name>> or <<before last dot, after it>>
RSplitDot(name) ==
    LET i == RFind(name, ".", Len(name))
    IN  IF i = 0 THEN <<name>>
        ELSE <<SubSeq(name, 1, i - 1), SubSeq(name, i + 1, Len(name))>>

----------------------------------------------------------------------------
\* Timestamps

\* 2025-08-08 14:30:22 and one second later
TimeA == [year |-> 2025, month |-> 8, day |-> 8, hour |-> 14, minute |-> 30, second |-> 22]
TimeB == [year |-> 2025, month |-> 8, day |-> 8, hour |-> 14, minute |-> 30, second |-> 23]

\* dt.strftime("%y%m%d_%H%M%S_")
format_datetime_prefix(dt) ==
    TwoDigits(dt.year) \o TwoDigits(dt.month) \o TwoDigits(dt.day) \o <<"_">>
      \o TwoDigits(dt.hour) \o TwoDigits(dt.minute) \o TwoDigits(dt.second) \o <<"_">>

----------------------------------------------------------------------------
\* The file system: two directories, each absent or a map from names to
\* entries. An entry is a regular file or a directory; data stands for the
\* bytes of a file and ctime for the creation time os.stat reports for it.

Dirs == {"in", "out"}

NoDir == [exists |-> FALSE, ents |-> <<>>]
EmptyDir == [exists |-> TRUE, ents |-> <<>>]

File(data, ctime) == [kind |-> "file", data |-> data, ctime |-> ctime]
Folder(ctime) == [kind |-> "dir", data |-> 0, ctime |-> ctime]

\* The bytes of a destination file whose copy stopped half way.
PartialData == 0

NameReport == <<"r", "e", "p", "o", "r", "t", ".", "p", "d", "f">>
NameNotes == <<"n", "o", "t", "e", "s">>
NameA == <<"a", ".", "t", "x", "t">>
NameB == <<"b", ".", "p", "d", "f">>
NameC == <<"c", ".", "T", "X", "T">>
NameSub == <<"s", "u", "b">>
\* A path no state of the model holds a file at.
NameGone == <<"g", "o", "n", "e">>

ExtTxt == <<".", "t", "x", "t">>
ExtPdfUpper == <<".", "P", "D", "F">>

PrefixA == <<"2", "5", "0", "8", "0", "8", "_", "1", "4", "3", "0", "2", "2", "_">>

\* The directories main can start on.
InputDirs ==
    { NoDir,
      [exists |-> TRUE,
       ents |-> (NameA :> File(1, TimeA)) @@ (NameB :> File(2, TimeA))
                  @@ (NameC :> File(3, TimeB)) @@ (NameSub :> Folder(TimeA))],
      [exists |-> TRUE,
       ents |-> (NameReport :> File(4, TimeA)) @@ (NameNotes :> File(5, TimeA))] }

OutputDirs ==
    { NoDir,
      [exists |-> TRUE,
       ents |-> ((PrefixA \o NameReport) :> File(6, TimeA))
                  @@ ((PrefixA \o <<"r", "e", "p", "o", "r", "t", "_", "0", "0", "2", ".", "p", "d", "f">>)
                        :> File(7, TimeA))
                  @@ ((PrefixA \o NameNotes) :> Folder(TimeA))] }

Names(f, d) == DOMAIN f[d].ents

\* Path.exists / os.path.exists
PathExists(f, d, name) == f[d].exists /\ name \in Names(f, d)

\* Path.mkdir(parents=True, exist_ok=True)
Mkdir(f, d) == IF f[d].exists THEN f ELSE [f EXCEPT ![d] = EmptyDir]

\* The directory with an entry written at name (an entry already there is
\* replaced, as open(dst, 'wb') and os.rename replace it).
WriteEntry(f, d, name, e) ==
    [f EXCEPT ![d].ents = [n \in (DOMAIN @) \cup {name} |-> IF n = name THEN e ELSE @[n]]]

\* os.unlink / the source side of os.rename
RemoveEntry(f, d, name) ==
    [f EXCEPT ![d].ents = [n \in (DOMAIN @) \ {name} |-> @[n]]]

----------------------------------------------------------------------------
\* rename_file

\* The time a file created now is stamped with.
Now == TimeB

\* get_file_creation_time: the creation time, or None (here NoTime) when
\* os.stat raises.
NoTime == [year |-> 0, month |-> 0, day |-> 0, hour |-> 0, minute |-> 0, second |-> 0]
get_file_creation_time(f, d, name, fault) ==
    IF fault = "stat" \/ ~PathExists(f, d, name) THEN NoTime ELSE f[d].ents[name].ctime

\* The name tried for a counter value (lines 107-112).
SuffixedName(date_prefix, original_name, counter) ==
    LET name_parts == RSplitDot(original_name)
    IN  IF Len(name_parts) = 2
        THEN date_prefix \o name_parts[1] \o <<"_">> \o FormatCounter(counter)
               \o <<".">> \o name_parts[2]
        ELSE date_prefix \o original_name \o <<"_">> \o FormatCounter(counter)

\* The first candidate taken without an existence check.
CollisionLoopNoCheck(existing, date_prefix, original_name, new_filename, counter) ==
    [new_filename |-> new_filename, counter |-> counter]

\* An if in place of the while: one suffixed name is tried and taken unchecked.
CollisionLoopOnce(existing, date_prefix, original_name, new_filename, counter) ==
    IF new_filename \in existing
    THEN [new_filename |-> SuffixedName(date_prefix, original_name, counter),
          counter |-> counter + 1]
    ELSE [new_filename |-> new_filename, counter |-> counter]

RECURSIVE CollisionLoop(_, _, _, _, _)
\* while destination_path.exists(): ... counter += 1
\* The result's counter is the number of existence checks made.
CollisionLoop(existing, date_prefix, original_name, new_filename, counter) ==
    IF new_filename \in existing
    THEN CollisionLoop(existing, date_prefix, original_name,
                       SuffixedName(date_prefix, original_name, counter), counter + 1)
    ELSE [new_filename |-> new_filename, counter |-> counter]

\* Lines 96-114: the destination name for a source in the directory whose
\* entries are existing.
ResolveName(existing, date_prefix, original_name) ==
    CollisionLoop(existing, date_prefix, original_name, date_prefix \o original_name, 1)

\* The outcomes of the transfer step the environment can force.
\*   clean:   shutil raises before anything is written
\*   partial: the copy (copy2, or move's copy across devices) raises after
\*            the destination was opened and partly written
\*   unlink:  move copied across devices and could not remove the source
TransferFaults(copy_mode) ==
    IF copy_mode THEN {"clean", "partial"} ELSE {"clean", "partial", "unlink"}

\* The creation time of a moved file: os.rename keeps the birth time and
\* stamps a new change time (lines 48-51 read one or the other).
MovedTime(e, has_birthtime) == IF has_birthtime THEN e.ctime ELSE Now

\* A move that copies and leaves the source in place.
TransferLeavesSource(f, d, name, dst, new_filename, copy_mode, fault, has_birthtime) ==
    IF fault = "none"
    THEN [fs |-> WriteEntry(f, dst, new_filename, File(f[d].ents[name].data, Now)),
          raised |-> f[d].ents[name].kind = "dir" /\ copy_mode]
    ELSE [fs |-> f, raised |-> TRUE]

\* Lines 116-122: shutil.copy2 or shutil.move of the entry e at (d, name) to
\* (dst, new_filename). [fs, raised]
Transfer(f, d, name, dst, new_filename, copy_mode, fault, has_birthtime) ==
    LET e == f[d].ents[name]
        copied == WriteEntry(f, dst, new_filename, File(e.data, Now))
        partial == WriteEntry(f, dst, new_filename, File(PartialData, Now))
    IN  IF fault = "clean" THEN [fs |-> f, raised |-> TRUE]
        ELSE IF copy_mode
        THEN IF e.kind = "dir" THEN [fs |-> f, raised |-> TRUE]
             ELSE IF fault = "partial" THEN [fs |-> partial, raised |-> TRUE]
             ELSE [fs |-> copied, raised |-> FALSE]
        ELSE IF fault = "partial" /\ e.kind = "file" THEN [fs |-> partial, raised |-> TRUE]
             ELSE IF fault = "unlink" /\ e.kind = "file" THEN [fs |-> copied, raised |-> TRUE]
             ELSE [fs |-> WriteEntry(RemoveEntry(f, d, name), dst, new_filename,
                                     [e EXCEPT !.ctime = MovedTime(e, has_birthtime)]),
                   raised |-> FALSE]

NoName == <<>>

\* rename_file(source_path, destination_dir, copy_mode), source_path being
\* name in directory d. The result is the tuple the code returns
\* (success, new_filename, error), the file system after the call, and the
\* number of existence checks the collision loop made.
rename_file(f, d, name, dst, copy_mode, fault, has_birthtime) ==
    IF fault = "mkdir"
    THEN [fs |-> f, success |-> FALSE, new_filename |-> NoName,
          error |-> "exception", checks |-> 0]
    ELSE
    LET f1 == Mkdir(f, dst)
        creation_time == get_file_creation_time(f1, d, name, fault)
    IN  IF creation_time = NoTime
        THEN [fs |-> f1, success |-> FALSE, new_filename |-> NoName,
              error |-> "no creation time", checks |-> 0]
        ELSE
        LET date_prefix == format_datetime_prefix(creation_time)
            r == ResolveName(Names(f1, dst), date_prefix, name)
            t == Transfer(f1, d, name, dst, r.new_filename, copy_mode, fault, has_birthtime)
        IN  IF t.raised
            THEN [fs |-> t.fs, success |-> FALSE, new_filename |-> NoName,
                  error |-> "exception", checks |-> r.counter]
            ELSE [fs |-> t.fs, success |-> TRUE, new_filename |-> r.new_filename,
                  error |-> "none", checks |-> r.counter]

\* The failures the environment can inject into one call: os.stat on the
\* source, mkdir of a destination that is not there yet, and the transfer of
\* a regular file.
Faults(f, d, name, dst, copy_mode) ==
    {"stat"}
      \cup (IF f[dst].exists THEN {} ELSE {"mkdir"})
      \cup (IF PathExists(f, d, name) /\ f[d].ents[name].kind = "file"
            THEN TransferFaults(copy_mode) ELSE {})

----------------------------------------------------------------------------
\* process_directory and main

VARIABLES
    fs,             \* the file system
    has_birthtime,  \* hasattr(stat, 'st_birthtime') on this platform
    output_dir,     \* --output, the same in every invocation of a behaviour
    pc,             \* "idle": no process; "loop": in the loop of process_directory;
                    \* "done": main has returned
    file_arg,       \* --file of the invocation, NoName without it
    extensions,     \* --extensions of the invocation, <<>> without it
    copy_mode,      \* --copy of the running batch
    files,          \* the list process_directory iterates
    idx,            \* the position of the for loop in files, from 1
    success_count, error_count,
    log,            \* the lines the invocation has logged
    last,           \* the latest rename_file call of the invocation: arguments,
                    \* file system before the call, result
    processed,      \* the rename_file calls of the batch, in order: source name, result
    streak,         \* the names returned so far, while every call of the behaviour
                    \* placed a source of one name and creation time in a directory
                    \* that held nothing before the first call
    calls,          \* rename_file calls so far
    faults          \* failures injected so far

vars == <<fs, has_birthtime, output_dir, pc, file_arg, extensions, copy_mode, files, idx,
          success_count, error_count, log, last, processed, streak, calls, faults>>

\* --input
input_dir == "in"

Line(level, msg) == [level |-> level, msg |-> msg, a |-> 0, b |-> 0]
Line2(level, msg, a, b) == [level |-> level, msg |-> msg, a |-> a, b |-> b]

\* The lines rename_file and get_file_creation_time log for a result.
CallLines(r, copy_mode_) ==
    IF r.success THEN <<Line("INFO", IF copy_mode_ THEN "Copied" ELSE "Moved")>>
    ELSE IF r.error = "no creation time"
    THEN <<Line("ERROR", "Error getting creation time")>>
    ELSE <<Line("ERROR", "Error processing")>>

NoCall == [called |-> FALSE, name |-> NoName, copy_mode |-> FALSE,
           pre |-> [x \in Dirs |-> NoDir], success |-> FALSE,
           new_filename |-> NoName, error |-> "none", checks |-> 0]

Call(f, name, copy_mode_, r) ==
    [called |-> TRUE, name |-> name, copy_mode |-> copy_mode_,
     pre |-> f, success |-> r.success, new_filename |-> r.new_filename,
     error |-> r.error, checks |-> r.checks]

NoStreak == [live |-> FALSE, name |-> NoName, time |-> NoTime, names |-> <<>>]

\* streak after a call returned r for the source name in directory d of f.
StreakAfter(st, f, d, name, dst, r) ==
    LET time == IF PathExists(f, d, name) THEN f[d].ents[name].ctime ELSE NoTime
    IN  IF /\ st.live
           /\ r.success
           /\ IF st.names = <<>> THEN Names(f, dst) = {}
              ELSE name = st.name /\ time = st.time
        THEN [live |-> TRUE, name |-> name, time |-> time,
              names |-> Append(st.names, r.new_filename)]
        ELSE NoStreak

RECURSIVE Orderings(_)
\* The orders iterdir can yield a set of names in: the list of lines 150-155
\* holds the selected files in the order of the listing.
Orderings(S) ==
    IF S = {} THEN {<<>>}
    ELSE UNION {{<<x>> \o rest : rest \in Orderings(S \ {x})} : x \in S}

\* f.is_file()
IsFile(f, d, name) == f[d].ents[name].kind = "file"

\* Line 150: the regular files of directory d.
RegularFiles(f, d) == {n \in Names(f, d) : IsFile(f, d, n)}

\* Line 154
LowerAll(file_extensions) == [i \in 1..Len(file_extensions) |-> Lower(file_extensions[i])]

\* The suffix compared as it is spelled.
ExtensionSelectedCaseSensitive(name, lowered) ==
    \E i \in 1..Len(lowered) : PathSuffix(name) = lowered[i]

\* f.suffix.lower() in file_extensions
ExtensionSelected(name, lowered) ==
    \E i \in 1..Len(lowered) : Lower(PathSuffix(name)) = lowered[i]

\* Lines 153-155: no filter (None or an empty list) keeps every file.
FilterFiles(fileset, file_extensions) ==
    IF file_extensions = <<>> THEN fileset
    ELSE {n \in fileset : ExtensionSelected(n, LowerAll(file_extensions))}

\* The --extensions values main is started with.
ExtensionArgs == {<<>>, <<ExtTxt>>, <<ExtPdfUpper, ExtTxt>>}

\* main without the existence check of line 221.
FileArgExistsUnchecked(f, d, name) == TRUE

\* Line 221: os.path.exists(args.file)
FileArgExists(f, d, name) == PathExists(f, d, name)

\* process_directory without the check of line 145.
InputMissingUnchecked(f, d) == FALSE

\* Line 145
InputMissing(f, d) == ~f[d].exists

\* The list walked from its end.
CurrentFileReversed(fileseq, i) == fileseq[Len(fileseq) + 1 - i]

\* Line 166: the file the for loop hands to rename_file at position i.
CurrentFile(fileseq, i) == fileseq[i]

\* Only successes counted.
TallySuccessOnly(success, counts) ==
    IF success THEN [counts EXCEPT !.success_count = @ + 1] ELSE counts

\* Lines 168-171: the counters after an outcome.
Tally(success, counts) ==
    IF success THEN [counts EXCEPT !.success_count = @ + 1]
    ELSE [counts EXCEPT !.error_count = @ + 1]

Init ==
    /\ output_dir \in Dirs
    /\ fs \in [Dirs -> InputDirs \cup OutputDirs]
    /\ fs["in"] \in InputDirs
    /\ fs["out"] \in (IF output_dir = "out" THEN OutputDirs ELSE {NoDir})
    /\ has_birthtime \in BOOLEAN
    /\ pc = "idle"
    /\ file_arg = NoName
    /\ extensions = <<>>
    /\ copy_mode = FALSE
    /\ files = <<>>
    /\ idx = 1
    /\ success_count = 0
    /\ error_count = 0
    /\ log = <<>>
    /\ last = NoCall
    /\ processed = <<>>
    /\ streak = [live |-> TRUE, name |-> NoName, time |-> NoTime, names |-> <<>>]
    /\ calls = 0
    /\ faults = 0

\* One rename_file call and its bookkeeping, shared by the single-file mode
\* and the batch loop.
DoCall(name, copy_mode_, fault) ==
    LET r == rename_file(fs, input_dir, name, output_dir, copy_mode_, fault, has_birthtime)
    IN  /\ fs' = r.fs
        /\ last' = Call(fs, name, copy_mode_, r)
        /\ streak' = StreakAfter(streak, fs, input_dir, name, output_dir, r)
        /\ calls' = calls + 1
        /\ faults' = IF fault = "none" THEN faults ELSE faults + 1

FaultChoices(name, copy_mode_) ==
    {"none"} \cup (IF faults < MaxFaults
                   THEN Faults(fs, input_dir, name, output_dir, copy_mode_) ELSE {})

\* main with --file on a path that does not exist (lines 219-223).
MainFileMissing ==
    /\ pc = "idle"
    /\ \E name \in Names(fs, input_dir) \cup {NameGone} :
          /\ ~FileArgExists(fs, input_dir, name)
          /\ file_arg' = name
    /\ log' = <<Line("INFO", "Starting"), Line("ERROR", "File does not exist")>>
    /\ pc' = "done"
    /\ UNCHANGED <<fs, has_birthtime, output_dir, extensions, copy_mode, files, idx,
                   success_count, error_count, last, processed, streak, calls, faults>>

\* main with --file on an existing path (lines 219-229, 234).
MainFile ==
    /\ pc = "idle"
    /\ calls < MaxCalls
    /\ \E copy_mode_ \in BOOLEAN :
       \E name \in Names(fs, input_dir) \cup {NameGone} :
       \E fault \in FaultChoices(name, copy_mode_) :
          /\ FileArgExists(fs, input_dir, name)
          /\ file_arg' = name
          /\ DoCall(name, copy_mode_, fault)
          /\ log' = <<Line("INFO", "Starting")>> \o CallLines(last', copy_mode_)
                      \o <<IF last'.success
                           THEN Line("INFO", "Successfully processed file")
                           ELSE Line("ERROR", "Failed to process file"),
                           Line("INFO", "completed")>>
    /\ pc' = "done"
    /\ UNCHANGED <<has_birthtime, output_dir, extensions, copy_mode, files, idx,
                   success_count, error_count, processed>>

\* main without --file: process_directory up to the start of its loop
\* (lines 142-164), or all of it when it returns early.
MainDir ==
    /\ pc = "idle"
    /\ \E copy_mode_ \in BOOLEAN, file_extensions \in ExtensionArgs :
          /\ extensions' = file_extensions
          /\ IF InputMissing(fs, input_dir)
             THEN /\ log' = <<Line("INFO", "Starting"),
                              Line("ERROR", "Input directory does not exist"),
                              Line("INFO", "completed")>>
                  /\ pc' = "done"
                  /\ UNCHANGED <<copy_mode, files, idx, success_count, error_count>>
             ELSE LET selected == FilterFiles(RegularFiles(fs, input_dir), file_extensions)
                  IN  IF selected = {}
                      THEN /\ log' = <<Line("INFO", "Starting"),
                                       Line("WARNING", "No files found to process"),
                                       Line("INFO", "completed")>>
                           /\ pc' = "done"
                           /\ UNCHANGED <<copy_mode, files, idx, success_count, error_count>>
                      ELSE /\ calls + Cardinality(selected) <= MaxCalls
                           /\ pc' = "loop"
                           /\ copy_mode' = copy_mode_
                           /\ files' \in Orderings(selected)
                           /\ idx' = 1
                           /\ success_count' = 0
                           /\ error_count' = 0
                           /\ log' = <<Line("INFO", "Starting"),
                                       Line2("INFO", "Found files", Cardinality(selected), 0)>>
    /\ UNCHANGED <<fs, has_birthtime, output_dir, file_arg, last, processed, streak, calls, faults>>

\* One iteration of the for loop (lines 166-172).
LoopStep ==
    /\ pc = "loop"
    /\ idx <= Len(files)
    /\ LET file_path == CurrentFile(files, idx)
       IN  \E fault \in FaultChoices(file_path, copy_mode) :
              /\ DoCall(file_path, copy_mode, fault)
              /\ processed' = Append(processed, [name |-> file_path,
                                                 success |-> last'.success,
                                                 new_filename |-> last'.new_filename])
              /\ LET counts == Tally(last'.success, [success_count |-> success_count,
                                                     error_count |-> error_count])
                 IN  /\ success_count' = counts.success_count
                     /\ error_count' = counts.error_count
              /\ log' = log \o CallLines(last', copy_mode)
                          \o (IF last'.success THEN <<>>
                              ELSE <<Line("ERROR", "Failed to process")>>)
    /\ idx' = idx + 1
    /\ UNCHANGED <<has_birthtime, output_dir, pc, file_arg, extensions, copy_mode, files>>

\* The end of the loop: the summary line (174) and main's last line (234).
LoopEnd ==
    /\ pc = "loop"
    /\ idx > Len(files)
    /\ pc' = "done"
    /\ log' = log \o <<Line2("INFO", "Processing complete", success_count, error_count),
                       Line("INFO", "completed")>>
    /\ UNCHANGED <<fs, has_birthtime, output_dir, file_arg, extensions, copy_mode, files, idx,
                   success_count, error_count, last, processed, streak, calls, faults>>

\* The process ends; the next invocation is a new process, which starts
\* with no batch state and nothing logged.
Exit ==
    /\ pc = "done"
    /\ pc' = "idle"
    /\ file_arg' = NoName
    /\ extensions' = <<>>
    /\ copy_mode' = FALSE
    /\ files' = <<>>
    /\ idx' = 1
    /\ success_count' = 0
    /\ error_count' = 0
    /\ log' = <<>>
    /\ last' = NoCall
    /\ processed' = <<>>
    /\ UNCHANGED <<fs, has_birthtime, output_dir, streak, calls, faults>>

Next == MainFileMissing \/ MainFile \/ MainDir \/ LoopStep \/ LoopEnd \/ Exit

Spec == Init /\ [][Next]_vars

----------------------------------------------------------------------------
\* Properties

Range(seq) == {seq[i] : i \in 1..Len(seq)}

\* The destination directory as the latest call found it.
DstBefore == last.pre[output_dir].ents

\* The source entry of the latest call, as the call found it.
SrcBefore == last.pre[input_dir].ents[last.name]

\* The position of the last dot of a name, 0 without one.
LastDot(name) ==
    LET dots == {i \in 1..Len(name) : name[i] = "."}
    IN  IF dots = {} THEN 0 ELSE CHOOSE i \in dots : \A j \in dots : j <= i

\* k < 1000 written with exactly three digits.
ThreeDigits(k) ==
    <<DigitChars[((k \div 100) % 10) + 1], DigitChars[((k \div 10) % 10) + 1],
      DigitChars[(k % 10) + 1]>>

\* The name the spec gives the k-th placement after the first: the counter
\* before the extension, or at the end of a name without one.
ExpectedName(prefix, name, k) ==
    LET i == LastDot(name)
    IN  IF k = 0 THEN prefix \o name
        ELSE IF i = 0 THEN prefix \o name \o <<"_">> \o ThreeDigits(k)
        ELSE prefix \o SubSeq(name, 1, i - 1) \o <<"_">> \o ThreeDigits(k)
               \o SubSeq(name, i, Len(name))

\* The extension of a name, leading dot included; none when the only dot
\* starts or ends the name.
ExtensionOf(name) ==
    LET i == LastDot(name)
    IN  IF i <= 1 \/ i = Len(name) THEN <<>> ELSE SubSeq(name, i, Len(name))

LetterPairs ==
    {{"a", "A"}, {"b", "B"}, {"c", "C"}, {"d", "D"}, {"f", "F"}, {"p", "P"},
     {"t", "T"}, {"x", "X"}}

SameIgnoringCase(s1, s2) ==
    /\ Len(s1) = Len(s2)
    /\ \A i \in 1..Len(s1) : s1[i] = s2[i] \/ {s1[i], s2[i]} \in LetterPairs

\* The source a successful move took out of the destination directory.
MovedOutOfDst ==
    IF last.success /\ ~last.copy_mode /\ output_dir = input_dir THEN {last.name} ELSE {}

\* C1 as claimed: a transfer writes to a path that did not exist, and every
\* entry the destination directory held before a rename_file call is still
\* there with the same content after it.
C1_EveryDestinationFileKept ==
    last.called =>
        /\ last.success => last.new_filename \notin DOMAIN DstBefore
        /\ \A n \in DOMAIN DstBefore :
              /\ n \in Names(fs, output_dir)
              /\ fs[output_dir].ents[n].data = DstBefore[n].data

\* C1 amended: a transfer writes to a path that did not exist, and every
\* entry the destination directory held before a rename_file call, other
\* than the source a successful move took out of that directory, is still
\* there with the same content after it: no call overwrites a file.
C1_NoOverwrite ==
    last.called =>
        /\ last.success => last.new_filename \notin DOMAIN DstBefore
        /\ \A n \in (DOMAIN DstBefore) \ MovedOutOfDst :
              /\ n \in Names(fs, output_dir)
              /\ fs[output_dir].ents[n].data = DstBefore[n].data

\* A call that succeeded after its first candidate collided with an entry
\* of the destination directory.
C1_Witness ==
    /\ last.called /\ last.success /\ last.checks >= 2
    /\ format_datetime_prefix(SrcBefore.ctime) \o last.name \in DOMAIN DstBefore

\* C2: N sources of one name and one timestamp prefix placed one after
\* another in a directory that held nothing: the first returned name is
\* prefix + name, the k-th after it carries k as three digits before the
\* extension, and the names are pairwise distinct.
C2_SequentialNames ==
    streak.live =>
        /\ \A k \in 1..Len(streak.names) :
              streak.names[k] =
                  ExpectedName(format_datetime_prefix(streak.time), streak.name, k - 1)
        /\ \A j, k \in 1..Len(streak.names) : j # k => streak.names[j] # streak.names[k]
        /\ (streak.name = NameReport /\ streak.time = TimeA /\ Len(streak.names) >= 2) =>
              /\ streak.names[1] = PrefixA \o NameReport
              /\ streak.names[2] = PrefixA \o <<"r", "e", "p", "o", "r", "t", "_", "0", "0", "1",
                                                ".", "p", "d", "f">>

\* Three placements of report.pdf in a row.
C2_Witness ==
    streak.live /\ Len(streak.names) = 3 /\ streak.name = NameReport

\* C3: after a successful call the destination file has the content the
\* source had; a copy leaves the source as it was, a move leaves no file at
\* the source path.
C3_CopyKeepsMoveRemoves ==
    (last.called /\ last.success) =>
        /\ last.new_filename \in Names(fs, output_dir)
        /\ fs[output_dir].ents[last.new_filename].data = SrcBefore.data
        /\ last.copy_mode =>
              /\ last.name \in Names(fs, input_dir)
              /\ fs[input_dir].ents[last.name] = SrcBefore
        /\ ~last.copy_mode => last.name \notin Names(fs, input_dir)

\* A successful move of a file of which the destination already held a copy
\* made by an earlier copy-mode call.
C3_Witness ==
    /\ last.called /\ last.success /\ ~last.copy_mode /\ last.checks = 2
    /\ SrcBefore.kind = "file"
    /\ \E n \in DOMAIN DstBefore : DstBefore[n].data = SrcBefore.data

\* C4: in the loop of process_directory the two counters add up to the
\* number of files handled so far, each handled file counted once under
\* its own outcome; when the loop has ended they add up to the number of
\* selected files, whatever failed on the way.
C4_CountsAddUp ==
    /\ pc = "loop" => idx <= Len(files) + 1
    /\ (pc = "loop" \/ (pc = "done" /\ files # <<>>)) =>
          /\ success_count + error_count = idx - 1
          /\ Len(processed) = idx - 1
          /\ success_count = Cardinality({k \in 1..Len(processed) : processed[k].success})
          /\ error_count = Cardinality({k \in 1..Len(processed) : ~processed[k].success})
    /\ (pc = "done" /\ files # <<>>) =>
          /\ success_count + error_count = Len(files)
          /\ log[2] = Line2("INFO", "Found files", Len(files), 0)
          /\ log[Len(log) - 1] =
                Line2("INFO", "Processing complete", success_count, error_count)

\* A finished batch whose first file failed and whose second succeeded.
C4_Witness ==
    /\ pc = "done" /\ Len(files) >= 2
    /\ ~processed[1].success /\ processed[2].success

\* C5: main started with --file on a path that does not exist logs an
\* error and changes nothing: no directory is created, no file written,
\* rename_file not called.
C5_MissingFileNoSideEffects ==
    [][(pc = "idle" /\ pc' # "idle" /\ file_arg' # NoName
            /\ ~PathExists(fs, input_dir, file_arg')) =>
          /\ pc' = "done"
          /\ fs' = fs
          /\ calls' = calls
          /\ \E i \in 1..Len(log') : log'[i].level = "ERROR"
          /\ \A i \in 1..Len(log') : log'[i].msg # "Successfully processed file"]_vars

\* The invocation has returned, and the destination directory, absent
\* before, is still absent.
C5_Witness ==
    /\ pc = "done" /\ file_arg = NameGone
    /\ ~fs[output_dir].exists
    /\ \E i \in 1..Len(log) : log[i] = Line("ERROR", "File does not exist")

\* C6 as claimed: when the transfer step of rename_file fails, the call
\* returns a failure and the destination directory holds exactly the
\* entries it held before the call.
C6_NoPartialFileAfterFailure ==
    (last.called /\ ~last.success /\ last.error = "exception" /\ last.checks > 0) =>
        fs[output_dir].ents = DstBefore

\* C7: process_directory on a source directory that does not exist logs
\* the condition once and does nothing else: no rename_file call, no
\* directory created, no file moved or copied.
C7_MissingInputAborts ==
    [][(pc = "idle" /\ pc' # "idle" /\ file_arg' = NoName /\ ~fs[input_dir].exists) =>
          /\ pc' = "done"
          /\ fs' = fs
          /\ calls' = calls
          /\ files' = <<>>
          /\ processed' = <<>>
          /\ Cardinality({i \in 1..Len(log') : log'[i].level = "ERROR"}) = 1
          /\ \E i \in 1..Len(log') :
                log'[i] = Line("ERROR", "Input directory does not exist")]_vars

\* The batch has returned on a missing source directory, and the
\* destination directory, absent before, is still absent.
C7_Witness ==
    /\ pc = "done" /\ file_arg = NoName
    /\ ~fs[input_dir].exists /\ ~fs[output_dir].exists
    /\ \E i \in 1..Len(log) : log[i] = Line("ERROR", "Input directory does not exist")

\* The regular files of the source directory whose extension equals a
\* filter entry, case ignored.
MatchingFiles ==
    {n \in Names(fs, input_dir) :
        /\ fs[input_dir].ents[n].kind = "file"
        /\ \E i \in 1..Len(extensions) : SameIgnoringCase(ExtensionOf(n), extensions[i])}

\* C8: with a filter, the list process_directory iterates holds exactly the
\* regular files whose extension, dot included, equals a filter entry when
\* both are lower-cased; of a.txt, b.pdf, c.TXT and the filter {.txt},
\* exactly a.txt and c.TXT.
C8_ExtensionFilter ==
    /\ (pc = "loop" /\ idx = 1 /\ extensions # <<>>) =>
          /\ Range(files) = MatchingFiles
          /\ Len(files) = Cardinality(MatchingFiles)
          /\ (extensions = <<ExtTxt>> /\ {NameA, NameB, NameC} \subseteq Names(fs, input_dir)) =>
                Range(files) \cap {NameA, NameB, NameC} = {NameA, NameC}
    /\ (pc = "done" /\ extensions # <<>> /\ fs[input_dir].exists /\ files = <<>>) =>
          MatchingFiles = {}

\* The batch over a.txt, b.pdf, c.TXT with the filter .txt is about to
\* handle its first file.
C8_Witness ==
    /\ pc = "loop" /\ idx = 1 /\ extensions = <<ExtTxt>>
    /\ NameB \in Names(fs, input_dir)
    /\ Range(files) = {NameA, NameC}

\* The name the collision loop tries at its k-th existence check, from 0.
Candidate(date_prefix, original_name, k) ==
    IF k = 0 THEN date_prefix \o original_name
    ELSE SuffixedName(date_prefix, original_name, k)

\* The counter values the names are compared for, 0 for the unsuffixed name.
ProbeCounters == 0..1100

\* The names tried for the source names and prefixes of the model differ
\* from one counter value to the next, through 999 and beyond.
CounterNamesDistinct ==
    \A p \in {format_datetime_prefix(TimeA), format_datetime_prefix(TimeB)} :
    \A n \in {NameReport, NameNotes, NameA, NameB, NameC, NameSub} :
        Cardinality({Candidate(p, n, k) : k \in ProbeCounters}) = Cardinality(ProbeCounters)

\* C9: the collision loop makes at most n + 1 existence checks, n the
\* number of entries of the destination directory, and stops at the first
\* unused name of the sequence unsuffixed, counter 1, 2, 3, ...; the names
\* of distinct counter values differ, past 999 as well.
C9_CollisionLoop ==
    /\ CounterNamesDistinct
    /\ (last.called /\ last.checks > 0) =>
          LET p == format_datetime_prefix(SrcBefore.ctime)
              existing == DOMAIN DstBefore
          IN  /\ last.checks <= Cardinality(existing) + 1
              /\ \A k \in 0..(last.checks - 2) : Candidate(p, last.name, k) \in existing
              /\ Candidate(p, last.name, last.checks - 1) \notin existing
              /\ last.success => last.new_filename = Candidate(p, last.name, last.checks - 1)

\* A call that found the unsuffixed name, counter 1 and counter 2 taken.
C9_Witness ==
    last.called /\ last.success /\ last.checks = 4

\* C10: the list of a batch does not change while the batch runs, and
\* rename_file is called once for each of its files in list order; no file
\* the batch created is handed to rename_file later in the batch.
C10_ListFixedEachFileOnce ==
    [][/\ (pc = "loop" /\ pc' # "idle") => files' = files
       /\ (pc' = "loop" \/ (pc' = "done" /\ files' # <<>>)) =>
             /\ Len(processed') = idx' - 1
             /\ \A k \in 1..Len(processed') : processed'[k].name = files'[k]
             /\ \A j, k \in 1..Len(files') : j # k => files'[j] # files'[k]
             /\ pc' = "done" => Len(processed') = Len(files')
             /\ \A j, k \in 1..Len(processed') :
                   (j < k /\ processed'[j].success) =>
                       processed'[k].name # processed'[j].new_filename]_vars

\* A finished batch that moved two files within the input directory: the
\* files it created are in the directory it listed.
C10_Witness ==
    /\ pc = "done" /\ output_dir = input_dir /\ Len(files) >= 2
    /\ success_count = Len(files)
    /\ \A k \in 1..Len(processed) : processed[k].new_filename \in Names(fs, input_dir)

====
